---- MODULE Spec2Model ----
(***************************************************************************)
(* Model of the Markov-chain core of rmm-simulator:                        *)
(*   modules/markov_chain.py     CryptoMarkovChain                         *)
(*   modules/advanced_markov.py  AdvancedMarkovAnalysis                    *)
(* One CryptoMarkovChain object and one AdvancedMarkovAnalysis object      *)
(* bound to it.  Floating-point numbers are modelled by exact rationals    *)
(* <<numerator, denominator>>; NaN is a distinguished value on which every *)
(* ordered comparison is false, as in IEEE-754.                            *)
(***************************************************************************)
EXTENDS Integers, Sequences, FiniteSets, TLC

VARIABLES transition_matrix, states, state_names,
          stationary_distribution, absorption_states, communication_classes,
          ret

vars == <<transition_matrix, states, state_names,
          stationary_distribution, absorption_states, communication_classes,
          ret>>

chain_vars == <<transition_matrix, states, state_names>>

analysis_vars == <<stationary_distribution, absorption_states, communication_classes>>

----------------------------------------------------------------------------
(* Bounds of the model *)

MaxLen == 6

MaxSteps == 3

MaxTargets == 1

MaxN == 3

MaxPrices == 35

MaxToggles == 2

----------------------------------------------------------------------------
(* Python None and optional fields *)

None == [none |-> TRUE, val |-> <<>>]

Some(v) == [none |-> FALSE, val |-> v]

----------------------------------------------------------------------------
(* Exact rational arithmetic standing for numpy float64 arithmetic *)

Abs(x) == IF x < 0 THEN -x ELSE x

(* the sequence <<F(1), ..., F(n)>>, every element evaluated once *)
RECURSIVE ToSeq(_, _)
ToSeq(f, n) == IF n = 0 THEN <<>> ELSE Append(ToSeq(f, n - 1), f[n])

Tabulate(n, F(_)) == ToSeq([i \in 1..n |-> F(i)], n)

RECURSIVE GCD(_, _)
GCD(a, b) == IF b = 0 THEN a ELSE GCD(b, a % b)

Rat(n, d) ==
    LET g == GCD(Abs(n), Abs(d))
        s == IF d < 0 THEN -1 ELSE 1
    IN  <<(s * n) \div g, (s * d) \div g>>

Zero == <<0, 1>>

One == <<1, 1>>

RAdd(x, y) ==
    IF x[2] = 1 /\ y[2] = 1 THEN <<x[1] + y[1], 1>>
    ELSE Rat(x[1] * y[2] + y[1] * x[2], x[2] * y[2])

RSub(x, y) ==
    IF x[2] = 1 /\ y[2] = 1 THEN <<x[1] - y[1], 1>>
    ELSE Rat(x[1] * y[2] - y[1] * x[2], x[2] * y[2])

RMul(x, y) ==
    IF x[1] = 0 \/ y[1] = 0 THEN Zero
    ELSE IF x[2] = 1 /\ y[2] = 1 THEN <<x[1] * y[1], 1>>
    ELSE Rat(x[1] * y[1], x[2] * y[2])

RDiv(x, y) == Rat(x[1] * y[2], x[2] * y[1])

RLess(x, y) == x[1] * y[2] < y[1] * x[2]

RECURSIVE RSumTo(_, _)
RSumTo(v, n) ==
    IF n = 0 THEN Zero
    ELSE IF v[n][1] = 0 THEN RSumTo(v, n - 1)
    ELSE RAdd(RSumTo(v, n - 1), v[n])

RSumSeq(v) == RSumTo(v, Len(v))

----------------------------------------------------------------------------
(* Input data: a DataFrame is a sequence of rows, one per time step *)

NaN == -999

IsNaN(x) == x = NaN

(* IEEE comparisons: false as soon as one operand is NaN *)
Lt(x, y) == ~IsNaN(x) /\ ~IsNaN(y) /\ x < y

Le(x, y) == ~IsNaN(x) /\ ~IsNaN(y) /\ x <= y

Gt(x, y) == ~IsNaN(x) /\ ~IsNaN(y) /\ x > y

Ge(x, y) == ~IsNaN(x) /\ ~IsNaN(y) /\ x >= y

Row(c, v, r, o, m, ms, a, s) ==
    [Close |-> c, Volatility |-> v, RSI |-> r, Volume_Norm |-> o,
     MACD |-> m, MACD_Signal |-> ms, ADX |-> a, Stoch_K |-> s]

(* a calm bar, an oversold bar after a rise, and a bar whose rolling
   indicators are still undefined (warm-up of the rolling windows) *)
RowCalm == Row(100, 2, 50, 10, 1, 0, 30, 50)

RowSold == Row(110, 5, 10, 20, 0, 1, 20, 10)

RowWarm == Row(100, NaN, NaN, NaN, 1, 1, NaN, NaN)

Rows == { RowCalm, RowSold, RowWarm }

RECURSIVE SeqsOfLen(_, _)
SeqsOfLen(S, n) ==
    IF n = 0 THEN { <<>> }
    ELSE { Append(q, x) : q \in SeqsOfLen(S, n - 1), x \in S }

Datasets == UNION { SeqsOfLen(Rows, n) : n \in 1..MaxLen }

----------------------------------------------------------------------------
(* CryptoMarkovChain.define_states *)

PctPeriod == 5

Column(data, f) == [i \in 1..Len(data) |-> data[i][f]]

(* data['Close'].pct_change(5): undefined for the first five rows; the
   quotient is kept as a rational, <<0, 0>> standing for NaN *)
RNaN == <<0, 0>>

IsRNaN(x) == x[2] = 0

price_change(data) ==
    [i \in 1..Len(data) |->
        IF i <= PctPeriod THEN RNaN
        ELSE Rat(data[i].Close - data[i - PctPeriod].Close, data[i - PctPeriod].Close)]

RGt(x, y) == ~IsRNaN(x) /\ ~IsRNaN(y) /\ RLess(y, x)

RLt(x, y) == ~IsRNaN(x) /\ ~IsRNaN(y) /\ RLess(x, y)

(* np.where(pc > 0.02, 2, np.where(pc < -0.02, 0, 1)) *)
trend(data) ==
    LET pc == price_change(data)
    IN  [i \in 1..Len(data) |->
            IF RGt(pc[i], <<2, 100>>) THEN 2
            ELSE IF RLt(pc[i], <<-2, 100>>) THEN 0 ELSE 1]

(* Series.quantile(q), q given in hundredths, linear interpolation over the
   non-NaN values; the result is scaled by 100; NaN when no value is defined *)
quantile(col, q100) ==
    LET v   == SortSeq(SelectSeq(col, LAMBDA x : ~IsNaN(x)), LAMBDA a, b : a < b)
        m   == Len(v)
        pos == (m - 1) * q100
        lo  == pos \div 100
        fr  == pos % 100
    IN  IF m = 0 THEN NaN
        ELSE IF fr = 0 THEN 100 * v[lo + 1]
        ELSE 100 * v[lo + 1] + fr * (v[lo + 2] - v[lo + 1])

LeScaled(x, q) == ~IsNaN(x) /\ ~IsNaN(q) /\ 100 * x <= q

(* np.where(col <= q33, 0, np.where(col <= q67, 1, 2)) *)
percentile_bucket(col) ==
    LET q33 == quantile(col, 33)
        q67 == quantile(col, 67)
    IN  [i \in 1..Len(col) |->
            IF LeScaled(col[i], q33) THEN 0
            ELSE IF LeScaled(col[i], q67) THEN 1 ELSE 2]

volatility(data) == percentile_bucket(Column(data, "Volatility"))

volume(data) == percentile_bucket(Column(data, "Volume_Norm"))

(* np.where(RSI < 20, 0, np.where(RSI >= 80, 2, 1)) *)
rsi(data) ==
    [i \in 1..Len(data) |->
        IF Lt(data[i].RSI, 20) THEN 0
        ELSE IF Ge(data[i].RSI, 80) THEN 2 ELSE 1]

(* np.where(MACD > Signal, 2, np.where(MACD < Signal, 0, 1)) *)
macd_signal(data) ==
    [i \in 1..Len(data) |->
        IF Gt(data[i].MACD, data[i].MACD_Signal) THEN 2
        ELSE IF Lt(data[i].MACD, data[i].MACD_Signal) THEN 0 ELSE 1]

(* np.where(ADX < 25, 0, np.where(ADX <= 50, 1, 2)) *)
adx(data) ==
    [i \in 1..Len(data) |->
        IF Lt(data[i].ADX, 25) THEN 0
        ELSE IF Le(data[i].ADX, 50) THEN 1 ELSE 2]

(* np.where(Stoch_K < 20, 0, np.where(Stoch_K <= 80, 1, 2)) *)
stoch(data) ==
    [i \in 1..Len(data) |->
        IF Lt(data[i].Stoch_K, 20) THEN 0
        ELSE IF Le(data[i].Stoch_K, 80) THEN 1 ELSE 2]

(* the label f"T{t}_V{v}_R{r}_O{o}_M{m}_A{a}_S{s}" is kept as the tuple of
   its seven bucket codes; string order of labels is the lexicographic
   order of the tuples, every code being one digit *)
state_key(t, v, r, o, m, a, s) == <<t, v, r, o, m, a, s>>

LabelLess(x, y) ==
    \E k \in 1..7 : (\A j \in 1..(k - 1) : x[j] = y[j]) /\ x[k] < y[k]

(* the guard of the loop body: pd.isna applied to the bucket codes that
   np.where produced *)
skipped(t, v, r, o, m, a, s, i) ==
    \/ IsNaN(t[i]) \/ IsNaN(v[i]) \/ IsNaN(r[i]) \/ IsNaN(o[i])
    \/ IsNaN(m[i]) \/ IsNaN(a[i]) \/ IsNaN(s[i])

RECURSIVE build_states(_, _, _, _, _, _, _, _, _)
build_states(t, v, r, o, m, a, s, i, n) ==
    IF i > n THEN <<>>
    ELSE IF skipped(t, v, r, o, m, a, s, i)
         THEN build_states(t, v, r, o, m, a, s, i + 1, n)
         ELSE <<[key |-> i, value |-> state_key(t[i], v[i], r[i], o[i], m[i], a[i], s[i])]>>
              \o build_states(t, v, r, o, m, a, s, i + 1, n)

Values(st) == [i \in 1..Len(st) |-> st[i].value]

Range(q) == { q[i] : i \in 1..Len(q) }

RECURSIVE SetToSeq(_)
SetToSeq(S) == IF S = {} THEN <<>>
               ELSE LET x == CHOOSE x \in S : TRUE IN <<x>> \o SetToSeq(S \ {x})

(* list(set(...)): the iteration order of a set of strings depends on the
   hash seed of the interpreter, so it can be any listing of the set *)
RECURSIVE Enumerations(_)
Enumerations(S) ==
    IF S = {} THEN { <<>> }
    ELSE UNION { { <<x>> \o q : q \in Enumerations(S \ {x}) } : x \in S }

(* the list kept in the order the set yields it *)
names_from_unsorted(order) == order

(* sorted(order) *)
names_from(order) == SortSeq(order, LabelLess)

(* sorted(list(states.values())), the labels not passed through set() *)
sorted_names_no_set(st) == names_from(Values(st))

(* sorted(list(set(states.values()))) *)
sorted_names(st) == names_from(SetToSeq(Range(Values(st))))

define_states_result(data) ==
    LET st == build_states(trend(data), volatility(data), rsi(data), volume(data),
                           macd_signal(data), adx(data), stoch(data), 1, Len(data))
    IN  [states |-> st, state_names |-> sorted_names(st)]

----------------------------------------------------------------------------
(* CryptoMarkovChain.build_transition_matrix *)

(* list.index: position of the first equal element (0 when absent) *)
index(names, x) ==
    IF \E k \in 1..Len(names) : names[k] = x
    THEN CHOOSE k \in 1..Len(names) : names[k] = x /\ \A j \in 1..(k - 1) : names[j] # x
    ELSE 0

(* the counter incremented at [next_idx, current_idx] *)
transition_counts_reversed(state_sequence, names) ==
    LET n == Len(names)
    IN  [a \in 1..n |-> [b \in 1..n |->
            Cardinality({ i \in 1..(Len(state_sequence) - 1) :
                            /\ index(names, state_sequence[i + 1]) = a
                            /\ index(names, state_sequence[i]) = b })]]

(* the loop written with range(len(state_sequence) - 2): the last pair of
   the sequence is not counted *)
transition_counts_short(state_sequence, names) ==
    LET n == Len(names)
    IN  [a \in 1..n |-> [b \in 1..n |->
            Cardinality({ i \in 1..(Len(state_sequence) - 2) :
                            /\ index(names, state_sequence[i]) = a
                            /\ index(names, state_sequence[i + 1]) = b })]]

(* the counting loop over consecutive pairs of list(self.states.values()) *)
transition_counts(state_sequence, names) ==
    LET n == Len(names)
    IN  [a \in 1..n |-> [b \in 1..n |->
            Cardinality({ i \in 1..(Len(state_sequence) - 1) :
                            /\ index(names, state_sequence[i]) = a
                            /\ index(names, state_sequence[i + 1]) = b })]]

RECURSIVE SumSeq(_)
SumSeq(v) == IF v = <<>> THEN 0 ELSE Head(v) + SumSeq(Tail(v))

(* a normalisation that divides by one more than the row sum *)
normalize_row_smoothed(row) ==
    LET row_sum == SumSeq(row)
    IN  IF row_sum > 0 THEN [b \in 1..Len(row) |-> Rat(row[b], row_sum + 1)]
        ELSE [b \in 1..Len(row) |-> Rat(row[b], 1)]

(* row i is divided by its sum when the sum is positive, left as is otherwise *)
normalize_row(row) ==
    LET row_sum == SumSeq(row)
    IN  IF row_sum > 0 THEN [b \in 1..Len(row) |-> Rat(row[b], row_sum)]
        ELSE [b \in 1..Len(row) |-> Rat(row[b], 1)]

normalize(counts) == [a \in 1..Len(counts) |-> normalize_row(counts[a])]

matrix_of(st, names) == normalize(transition_counts(Values(st), names))

NoError == [type |-> "", msg |-> "", subject |-> <<>>]

Error(type, msg, subject) == [type |-> type, msg |-> msg, subject |-> subject]

Ok(op, arg, value) ==
    [op |-> op, status |-> "ok", error |-> NoError, arg |-> arg, value |-> value]

Raise(op, arg, error) ==
    [op |-> op, status |-> "error", error |-> error, arg |-> arg, value |-> <<>>]

define_states(data) ==
    LET r == define_states_result(data)
    IN  /\ states' = r.states
        /\ state_names' = r.state_names
        /\ ret' = Ok("define_states", data, r.states)
        /\ UNCHANGED <<transition_matrix, analysis_vars>>

build_transition_matrix(data) ==
    LET r  == IF states = <<>> THEN define_states_result(data)
              ELSE [states |-> states, state_names |-> state_names]
        tm == matrix_of(r.states, r.state_names)
    IN  /\ states' = r.states
        /\ state_names' = r.state_names
        /\ transition_matrix' = Some(tm)
        /\ ret' = Ok("build_transition_matrix", data, tm)
        /\ UNCHANGED analysis_vars

----------------------------------------------------------------------------
(* CryptoMarkovChain.predict_next_states *)

(* a label that no row of the data can be given *)
UnknownLabel == <<0, 0, 0, 0, 0, 0, 0>>

OneHot(n, k) == [i \in 1..n |-> IF i = k THEN One ELSE Zero]

(* the product taken with the transposed matrix, M @ v *)
VecMat_transposed(v, M) ==
    Tabulate(Len(M), LAMBDA j : RSumSeq(Tabulate(Len(v), LAMBDA i : RMul(v[i], M[j][i]))))

(* v @ M *)
VecMat(v, M) ==
    Tabulate(Len(M), LAMBDA j : RSumSeq(Tabulate(Len(v), LAMBDA i : RMul(v[i], M[i][j]))))

(* the last index holding the maximum *)
argmax_last(v) ==
    CHOOSE k \in 1..Len(v) :
        /\ \A j \in 1..Len(v) : ~RLess(v[k], v[j])
        /\ \A j \in (k + 1)..Len(v) : RLess(v[j], v[k])

(* np.argmax: the first index holding the maximum *)
argmax(v) ==
    CHOOSE k \in 1..Len(v) :
        /\ \A j \in 1..Len(v) : ~RLess(v[k], v[j])
        /\ \A j \in 1..(k - 1) : RLess(v[j], v[k])

(* the loop without `state_probs` carried from one pass to the next: every
   pass multiplies the start vector *)
RECURSIVE forecast_from_start(_, _, _, _, _)
forecast_from_start(probs, M, names, step, steps) ==
    IF step > steps THEN <<>>
    ELSE LET state_probs == VecMat(probs, M)
             most_likely_idx == argmax(state_probs)
         IN  <<[step |-> step,
                state |-> names[most_likely_idx],
                probability |-> state_probs[most_likely_idx],
                all_probabilities |-> state_probs]>>
             \o forecast_from_start(probs, M, names, step + 1, steps)

RECURSIVE forecast(_, _, _, _, _)
forecast(probs, M, names, step, steps) ==
    IF step > steps THEN <<>>
    ELSE LET state_probs == VecMat(probs, M)
             most_likely_idx == argmax(state_probs)
         IN  <<[step |-> step,
                state |-> names[most_likely_idx],
                probability |-> state_probs[most_likely_idx],
                all_probabilities |-> state_probs]>>
             \o forecast(state_probs, M, names, step + 1, steps)

(* a lookup that falls back to the first state when the label is unknown *)
predict_result_lenient(tm, names, current_state, steps) ==
    LET arg == <<current_state, steps>>
        idx == IF index(names, current_state) = 0 THEN 1 ELSE index(names, current_state)
    IN  IF tm.none
        THEN Raise("predict_next_states", arg, Error("ValueError", "matrix not built", <<>>))
        ELSE IF Len(names) = 0 \/ (steps >= 1 /\ Len(names) # Len(tm.val))
        THEN Raise("predict_next_states", arg, Error("ValueError", "matmul shape mismatch", <<>>))
        ELSE Ok("predict_next_states", arg,
                forecast(OneHot(Len(names), idx), tm.val, names, 1, steps))

predict_result(tm, names, current_state, steps) ==
    LET arg == <<current_state, steps>>
    IN  IF tm.none
        THEN Raise("predict_next_states", arg, Error("ValueError", "matrix not built", <<>>))
        ELSE IF index(names, current_state) = 0
        THEN Raise("predict_next_states", arg, Error("ValueError", "state not found", current_state))
        ELSE IF steps >= 1 /\ Len(names) # Len(tm.val)
        THEN Raise("predict_next_states", arg, Error("ValueError", "matmul shape mismatch", <<>>))
        ELSE Ok("predict_next_states", arg,
                forecast(OneHot(Len(names), index(names, current_state)),
                         tm.val, names, 1, steps))

predict_next_states(current_state, steps) ==
    /\ ret' = predict_result(transition_matrix, state_names, current_state, steps)
    /\ UNCHANGED <<chain_vars, analysis_vars>>

----------------------------------------------------------------------------
(* AdvancedMarkovAnalysis.find_absorption_states; indices are 0-based as in
   the source, matrices are 1-based sequences *)

Positive(x) == x[1] > 0

(* the test `P[i, i] > 0` in place of `P[i, i] == 1.0` *)
absorbing_positive(P) ==
    SelectSeq([k \in 1..Len(P) |-> k - 1], LAMBDA i : Positive(P[i + 1][i + 1]))

(* the test applied to the total of row i in place of the entry P[i, i] *)
absorbing_row_total(P) ==
    SelectSeq([k \in 1..Len(P) |-> k - 1], LAMBDA i : RSumSeq(P[i + 1]) = One)

absorbing(P) ==
    SelectSeq([k \in 1..Len(P) |-> k - 1], LAMBDA i : P[i + 1][i + 1] = One)

find_absorption_states ==
    /\ IF transition_matrix.none
       THEN /\ ret' = Raise("find_absorption_states", <<>>,
                            Error("ValueError", "matrix not built", <<>>))
            /\ UNCHANGED absorption_states
       ELSE /\ absorption_states' = Some(absorbing(transition_matrix.val))
            /\ ret' = Ok("find_absorption_states", <<>>, absorbing(transition_matrix.val))
    /\ UNCHANGED <<chain_vars, stationary_distribution, communication_classes>>

----------------------------------------------------------------------------
(* AdvancedMarkovAnalysis.find_communication_classes *)

(* the condition reduced to `P[node, neighbor] > 0` *)
linked_forward(P, node, neighbor) == Positive(P[node + 1][neighbor + 1])

(* the condition with `and` between the two comparisons *)
linked_both(P, node, neighbor) ==
    Positive(P[node + 1][neighbor + 1]) /\ Positive(P[neighbor + 1][node + 1])

(* the condition under which dfs follows the pair (node, neighbor) *)
linked(P, node, neighbor) ==
    Positive(P[node + 1][neighbor + 1]) \/ Positive(P[neighbor + 1][node + 1])

RECURSIVE dfs(_, _, _)
RECURSIVE dfs_neighbors(_, _, _, _)

(* st = [visited |-> set of marked nodes, current_class |-> list] *)
dfs(P, node, st) ==
    dfs_neighbors(P, node, 0,
                  [visited |-> st.visited \cup {node},
                   current_class |-> Append(st.current_class, node)])

dfs_neighbors(P, node, neighbor, st) ==
    IF neighbor >= Len(P) THEN st
    ELSE IF neighbor \notin st.visited /\ linked(P, node, neighbor)
         THEN dfs_neighbors(P, node, neighbor + 1, dfs(P, neighbor, st))
         ELSE dfs_neighbors(P, node, neighbor + 1, st)

(* the outer loop without its `if not visited[i]` test *)
RECURSIVE classes_from_every_node(_, _, _)
classes_from_every_node(P, i, visited) ==
    IF i >= Len(P) THEN <<>>
    ELSE LET r == dfs(P, i, [visited |-> visited \ {i}, current_class |-> <<>>])
         IN  <<r.current_class>> \o classes_from_every_node(P, i + 1, visited \cup r.visited)

RECURSIVE classes_from(_, _, _)
classes_from(P, i, visited) ==
    IF i >= Len(P) THEN <<>>
    ELSE IF i \notin visited
         THEN LET r == dfs(P, i, [visited |-> visited, current_class |-> <<>>])
              IN  <<r.current_class>> \o classes_from(P, i + 1, visited \cup r.visited)
         ELSE classes_from(P, i + 1, visited)

communication_classes_of(P) == classes_from(P, 0, {})

find_communication_classes ==
    /\ IF transition_matrix.none
       THEN /\ ret' = Raise("find_communication_classes", <<>>,
                            Error("ValueError", "matrix not built", <<>>))
            /\ UNCHANGED communication_classes
       ELSE /\ communication_classes' = Some(communication_classes_of(transition_matrix.val))
            /\ ret' = Ok("find_communication_classes", <<>>,
                         communication_classes_of(transition_matrix.val))
    /\ UNCHANGED <<chain_vars, stationary_distribution, absorption_states>>

----------------------------------------------------------------------------
(* AdvancedMarkovAnalysis.calculate_hitting_times *)

MaxIter == 1000

Identity(n) == [i \in 1..n |-> [j \in 1..n |-> IF i = j THEN One ELSE Zero]]

MatSub(X, Y) == [i \in 1..Len(X) |-> [j \in 1..Len(X) |-> RSub(X[i][j], Y[i][j])]]

(* numpy row indexing A[state, :]: 0..n-1 address rows directly, -n..-1
   count from the end, anything else raises IndexError (row 0 here) *)
row_of(n, state) ==
    IF 0 <= state /\ state < n THEN state + 1
    ELSE IF -n <= state /\ state < 0 THEN state + n + 1
    ELSE 0

(* A = eye(n) - P, b = ones(n), then for every target: A[state, :] = 0,
   A[state, state] = 1, b[state] = 0 *)
system_matrix(P, target_states) ==
    LET n == Len(P)
        A == MatSub(Identity(n), P)
        T == { row_of(n, target_states[k]) : k \in 1..Len(target_states) }
    IN  [i \in 1..n |-> IF i \in T THEN [j \in 1..n |-> IF i = j THEN One ELSE Zero]
                        ELSE A[i]]

(* b = ones(n) without `b[state] = 0` *)
system_rhs_all_ones(P, target_states) == [i \in 1..Len(P) |-> One]

system_rhs(P, target_states) ==
    LET n == Len(P)
        T == { row_of(n, target_states[k]) : k \in 1..Len(target_states) }
    IN  [i \in 1..n |-> IF i \in T THEN Zero ELSE One]

RemoveAt(q, k) == [i \in 1..(Len(q) - 1) |-> IF i < k THEN q[i] ELSE q[i + 1]]

Minor(M, j) == [i \in 1..(Len(M) - 1) |-> RemoveAt(M[i + 1], j)]

RECURSIVE Det(_)
Det(M) ==
    IF Len(M) = 0 THEN One
    ELSE RSumSeq([j \in 1..Len(M) |->
            IF M[1][j] = Zero THEN Zero
            ELSE RMul(IF j % 2 = 1 THEN M[1][j] ELSE RSub(Zero, M[1][j]),
                      Det(Minor(M, j)))])

ReplaceColumn(M, j, b) ==
    [i \in 1..Len(M) |-> [k \in 1..Len(M) |-> IF k = j THEN b[i] ELSE M[i][k]]]

(* np.linalg.solve(A, b): the unique solution of A x = b (Cramer's rule);
   the caller has established Det(A) # 0 *)
solve(A, b) ==
    LET d == Det(A)
    IN  [j \in 1..Len(A) |-> RDiv(Det(ReplaceColumn(A, j, b)), d)]

RAbs(x) == <<Abs(x[1]), x[2]>>

(* |a - b| <= atol + rtol * |b| with atol = 1e-6 and numpy's default
   rtol = 1e-5, cross-multiplied *)
isclose(a, b) ==
    IF a[2] = 1 /\ b[2] = 1
    THEN IF Abs(a[1] - b[1]) > 1 + 10 * Abs(b[1]) THEN FALSE
         ELSE Abs(a[1] - b[1]) * 1000000 <= 1 + 10 * Abs(b[1])
    ELSE LET diff == RAbs(RSub(a, b))
             lhs  == diff[1] * b[2]
             rhs  == diff[2] * (b[2] + 10 * Abs(b[1]))
         IN  IF lhs > rhs THEN FALSE ELSE lhs * 1000000 <= rhs

allclose(x, y) == \A i \in 1..Len(x) : isclose(x[i], y[i])

(* the value new_times holds for a state listed in target_states *)
target_time == One

(* one sweep of the fallback loop: new_times = ones(n), overwritten for the
   states i with `i not in target_states` *)
(* np.sum(row * h) over the first n entries *)
RECURSIVE dot(_, _, _)
dot(row, h, n) ==
    IF n = 0 THEN Zero
    ELSE IF row[n][1] = 0 THEN dot(row, h, n - 1)
    ELSE RAdd(dot(row, h, n - 1), RMul(row[n], h[n]))

relax(P, target_states, hitting_times) ==
    Tabulate(Len(P), LAMBDA i :
        IF \E k \in 1..Len(target_states) : target_states[k] = i - 1
        THEN target_time
        ELSE RAdd(One, dot(P[i], hitting_times, Len(P))))

(* one pass of `for _ in range(1000)`: lp = [hitting_times, broke]; after
   the break the remaining passes do nothing *)
sweep(P, target_states, lp) ==
    IF lp.broke THEN lp
    ELSE CHOOSE r \in { IF allclose(lp.hitting_times, new_times)
                          THEN [hitting_times |-> lp.hitting_times, broke |-> TRUE]
                          ELSE [hitting_times |-> new_times, broke |-> FALSE] :
                          new_times \in { relax(P, target_states, lp.hitting_times) } } : TRUE

(* count passes in sequence, evaluated by halves to keep the evaluation
   depth logarithmic in count *)
RECURSIVE sweeps(_, _, _, _)
sweeps(P, target_states, lp, count) ==
    IF count = 0 THEN lp
    ELSE IF count = 1 THEN sweep(P, target_states, lp)
    ELSE CHOOSE r \in { sweeps(P, target_states, half, count - (count \div 2)) :
                          half \in { sweeps(P, target_states, lp, count \div 2) } } : TRUE

(* the loop started from np.ones(n) *)
iterate_from_ones(P, target_states) ==
    sweeps(P, target_states,
           [hitting_times |-> Tabulate(Len(P), LAMBDA i : One), broke |-> FALSE],
           MaxIter).hitting_times

iterate(P, target_states) ==
    sweeps(P, target_states,
           [hitting_times |-> Tabulate(Len(P), LAMBDA i : Zero), broke |-> FALSE],
           MaxIter).hitting_times

(* the call without its `except np.linalg.LinAlgError` clause *)
hitting_result_no_fallback(tm, target_states) ==
    IF tm.none
    THEN Raise("calculate_hitting_times", target_states,
               Error("ValueError", "matrix not built", <<>>))
    ELSE IF \E k \in 1..Len(target_states) : row_of(Len(tm.val), target_states[k]) = 0
    THEN Raise("calculate_hitting_times", target_states,
               Error("IndexError", "index out of bounds", <<>>))
    ELSE LET A == system_matrix(tm.val, target_states)
             b == system_rhs(tm.val, target_states)
         IN  IF Det(A) # Zero
             THEN Ok("calculate_hitting_times", target_states,
                     [path |-> "solve", hitting_times |-> solve(A, b)])
             ELSE Raise("calculate_hitting_times", target_states,
                        Error("LinAlgError", "singular matrix", <<>>))

hitting_result(tm, target_states) ==
    IF tm.none
    THEN Raise("calculate_hitting_times", target_states,
               Error("ValueError", "matrix not built", <<>>))
    ELSE IF \E k \in 1..Len(target_states) : row_of(Len(tm.val), target_states[k]) = 0
    THEN Raise("calculate_hitting_times", target_states,
               Error("IndexError", "index out of bounds", <<>>))
    ELSE LET A == system_matrix(tm.val, target_states)
             b == system_rhs(tm.val, target_states)
         IN  IF Det(A) # Zero
             THEN Ok("calculate_hitting_times", target_states,
                     [path |-> "solve", hitting_times |-> solve(A, b)])
             ELSE Ok("calculate_hitting_times", target_states,
                     [path |-> "fallback",
                      hitting_times |-> iterate(tm.val, target_states)])

(* what the caller is told about the path taken: both `return
   hitting_times` statements hand back the bare array; no flag, attribute
   or warning accompanies the result of the except branch *)
marked_approximate(path) == FALSE

(* the system built in place, A being the chain's own array *)
matrix_after_hitting_times_in_place(tm, target_states) ==
    IF tm.none \/ \E k \in 1..Len(target_states) : row_of(Len(tm.val), target_states[k]) = 0
    THEN tm
    ELSE Some(system_matrix(tm.val, target_states))

(* what the call leaves in the chain's matrix: A and b are fresh arrays *)
matrix_after_hitting_times(tm, target_states) == tm

calculate_hitting_times(target_states) ==
    /\ ret' = hitting_result(transition_matrix, target_states)
    /\ transition_matrix' = matrix_after_hitting_times(transition_matrix, target_states)
    /\ UNCHANGED <<states, state_names, analysis_vars>>

----------------------------------------------------------------------------
(* AdvancedMarkovAnalysis.analyze_stationarity and the operations that read
   the cached self.stationary_distribution *)

Transpose(P) == [i \in 1..Len(P) |-> [j \in 1..Len(P) |-> P[j][i]]]

(* the matrix handed to np.linalg.eig without the transposition *)
eig_argument_untransposed(P) == P

(* the matrix handed to np.linalg.eig: P.T *)
eig_argument(P) == Transpose(P)

(* (M - I) x = 0 with equation k replaced by sum(x) = 1 *)
eig_system(M, k) ==
    LET A == MatSub(M, Identity(Len(M)))
    IN  [i \in 1..Len(M) |-> IF i = k THEN [j \in 1..Len(M) |-> One] ELSE A[i]]

(* np.linalg.eig followed by the choice of the eigenvalue nearest to 1:
   when 1 is an eigenvalue of M whose eigenvectors form a line that is not
   orthogonal to (1, ..., 1), the column picked is a multiple of the vector
   of that line with entry sum 1, and that vector is the value here; in
   every other case the model leaves the column undetermined (None) *)
eigenvector_one(M) ==
    LET n  == Len(M)
        ks == { k \in 1..n : Det(eig_system(M, k)) # Zero }
    IN  IF Det(MatSub(M, Identity(n))) = Zero /\ ks # {}
        THEN LET k == CHOOSE k \in ks : \A l \in ks : k <= l
             IN  Some(ToSeq(solve(eig_system(M, k), [i \in 1..n |-> IF i = k THEN One ELSE Zero]), n))
        ELSE None

(* np.abs(v) / np.sum(np.abs(v)) *)
abs_normalized(v) ==
    LET a == Tabulate(Len(v), LAMBDA i : RAbs(v[i]))
    IN  Tabulate(Len(v), LAMBDA i : RDiv(a[i], RSumSeq(a)))

(* the vector is stored with the matrix it was derived from *)
stationary_vector(P) ==
    LET v == eigenvector_one(eig_argument(P))
    IN  [eig_of |-> P,
         vector |-> IF v.none THEN None ELSE Some(abs_normalized(v.val))]

analyze_stationarity ==
    /\ IF transition_matrix.none
       THEN /\ ret' = Raise("analyze_stationarity", <<>>,
                            Error("ValueError", "matrix not built", <<>>))
            /\ UNCHANGED stationary_distribution
       ELSE /\ stationary_distribution' = Some(stationary_vector(transition_matrix.val))
            /\ ret' = Ok("analyze_stationarity", <<>>,
                         stationary_vector(transition_matrix.val))
    /\ UNCHANGED <<chain_vars, absorption_states, communication_classes>>

(* `if self.stationary_distribution is None: self.analyze_stationarity()`
   followed by a computation on self.stationary_distribution *)
use_stationary(op) ==
    /\ IF stationary_distribution.none
       THEN IF transition_matrix.none
            THEN /\ ret' = Raise(op, <<>>, Error("ValueError", "matrix not built", <<>>))
                 /\ UNCHANGED stationary_distribution
            ELSE /\ stationary_distribution' = Some(stationary_vector(transition_matrix.val))
                 /\ ret' = Ok(op, <<>>, stationary_vector(transition_matrix.val))
       ELSE /\ ret' = Ok(op, <<>>, stationary_distribution.val)
            /\ UNCHANGED stationary_distribution
    /\ UNCHANGED <<chain_vars, absorption_states, communication_classes>>

calculate_expected_return_times == use_stationary("calculate_expected_return_times")

generate_trading_insights == use_stationary("generate_trading_insights")

analyze_market_phases == use_stationary("analyze_market_phases")

----------------------------------------------------------------------------
(* The objects after construction, and the calls a client can make *)

Init ==
    /\ transition_matrix = None
    /\ states = <<>>
    /\ state_names = <<>>
    /\ stationary_distribution = None
    /\ absorption_states = None
    /\ communication_classes = None
    /\ ret = Ok("__init__", <<>>, <<>>)

StartStates == Range(state_names) \cup {UnknownLabel}

Predict == \E s \in StartStates, n \in 1..MaxSteps : predict_next_states(s, n)

(* Spec: one chain and one analysis object used in any order on a few data
   frames: a lone bar, two bars, a series that ends in a repeated bar, a
   series that starts with a warm-up bar, and an alternating series *)
Frames == { <<RowCalm>>,
            <<RowCalm, RowSold>>,
            <<RowSold, RowCalm, RowCalm>>,
            <<RowWarm, RowCalm, RowSold>>,
            <<RowCalm, RowSold, RowCalm, RowSold>> }

DefineStates == \E d \in Frames : define_states(d)

BuildTransitionMatrix == \E d \in Frames : build_transition_matrix(d)

Next ==
    \/ DefineStates
    \/ BuildTransitionMatrix
    \/ Predict
    \/ analyze_stationarity
    \/ calculate_expected_return_times
    \/ generate_trading_insights
    \/ analyze_market_phases

Spec == Init /\ [][Next]_vars

----------------------------------------------------------------------------
(* SpecPipeline: the way the callers train a chain (timeframe_analysis.py,
   markov_interface.py, simplified_markov.py): a fresh chain, define_states
   on a data frame, build_transition_matrix on the same frame, then
   forecasts, or one of the analyzers applied to the matrix just built.
   The frame ranges over every series of at most MaxLen bars. *)

PipelineDefine ==
    /\ ret.op = "__init__"
    /\ \E d \in Datasets : define_states(d)

PipelineBuild ==
    /\ ret.op = "define_states"
    /\ build_transition_matrix(ret.arg)

PipelinePredict ==
    /\ ret.op \in {"build_transition_matrix", "predict_next_states"}
    /\ Predict

PipelineAbsorption ==
    /\ ret.op = "build_transition_matrix"
    /\ find_absorption_states

PipelineClasses ==
    /\ ret.op = "build_transition_matrix"
    /\ find_communication_classes

NextPipeline ==
    \/ PipelineDefine
    \/ PipelineBuild
    \/ PipelinePredict
    \/ PipelineAbsorption
    \/ PipelineClasses

SpecPipeline == Init /\ [][NextPipeline]_vars

----------------------------------------------------------------------------
(* SpecAnalysis: the analyzers as functions of an arbitrary matrix.  The
   chain handed to AdvancedMarkovAnalysis carries a square matrix of
   dimension at most MaxN in which every row is all zero or puts
   probability 1 on one state (entries that float64 represents exactly),
   or a two-state matrix with rows that split their mass; each behaviour
   applies one analyzer to it. *)

(* row kind 0 is the zero row, kind j > 0 the unit row on state j *)
matrix_row(n, kind) == Tabulate(n, LAMBDA j : IF j = kind THEN One ELSE Zero)

ZeroOneMatrices ==
    UNION { { Tabulate(n, LAMBDA i : matrix_row(n, k[i])) : k \in [1..n -> 0..n] }
            : n \in 1..MaxN }

(* two-state rows that split their mass: an even split and the rows of the
   chain A -> A 0.9, A -> B 0.1, B -> A 0.4, B -> B 0.6 *)
SplitRows == { <<Rat(1, 2), Rat(1, 2)>>, <<Rat(9, 10), Rat(1, 10)>>, <<Rat(4, 10), Rat(6, 10)>> }

TwoStateRows == { matrix_row(2, k) : k \in 0..2 } \cup SplitRows

SplitMatrices ==
    { <<r1, r2>> : r1 \in TwoStateRows, r2 \in TwoStateRows } \ ZeroOneMatrices

Matrices == ZeroOneMatrices \cup SplitMatrices

(* labels T0_V0_R0_O0_M0_A0_S<k>, in sorted order *)
Alphabet(n) == Tabulate(n, LAMBDA k : <<0, 0, 0, 0, 0, 0, k>>)

InitAnalysis ==
    /\ \E P \in Matrices :
        /\ transition_matrix = Some(P)
        /\ state_names = Alphabet(Len(P))
    /\ states = <<>>
    /\ stationary_distribution = None
    /\ absorption_states = None
    /\ communication_classes = None
    /\ ret = Ok("__init__", <<>>, <<>>)

Dim == IF transition_matrix.none THEN 0 ELSE Len(transition_matrix.val)

Ascending(q) == \A i \in 1..(Len(q) - 1) : q[i] < q[i + 1]

(* target sets of at most MaxTargets states of the alphabet, listed in
   ascending order, and the single indices at the edges of the range numpy
   accepts: n and -n-1 just outside it, -1 and -n inside it *)
TargetLists ==
    { t \in UNION { SeqsOfLen(0..(Dim - 1), k) : k \in 0..MaxTargets } : Ascending(t) }
        \cup { <<i>> : i \in {-(Dim + 1), -Dim, -1, Dim} }

IsZeroOne(P) == \A i, j \in 1..Len(P) : P[i][j] \in {Zero, One}

(* a singular system is explored on 0/1 matrices, where the LU
   factorisation of np.linalg.solve meets an exact zero pivot and the
   sweeps of the fallback stay integral; on a matrix with split rows the
   targets are those whose system has a unique solution *)
Solvable(P, target_states) ==
    \/ IsZeroOne(P)
    \/ \E k \in 1..Len(target_states) : row_of(Len(P), target_states[k]) = 0
    \/ Det(system_matrix(P, target_states)) # Zero

HittingTimes ==
    \E t \in TargetLists :
        /\ (transition_matrix.none \/ Solvable(transition_matrix.val, t)) = TRUE
        /\ calculate_hitting_times(t)

(* every analyzer is applied to the matrix the chain was constructed with *)
Fresh == ret.op = "__init__"

NextAnalysis ==
    \/ Fresh /\ Predict
    \/ Fresh /\ analyze_stationarity
    \/ Fresh /\ find_absorption_states
    \/ Fresh /\ find_communication_classes
    \/ Fresh /\ HittingTimes

SpecAnalysis == InitAnalysis /\ [][NextAnalysis]_vars

----------------------------------------------------------------------------
(* TimeframeAnalysis._calculate_hurst_exponent *)

Windows == <<2, 4, 8, 16, 32>>

(* max(windows) *)
MaxWindow == 32

Half == Rat(1, 2)

(* prices.pct_change().dropna(): the first element is undefined and dropped *)
pct_change_returns(prices) ==
    IF Len(prices) = 0 THEN <<>>
    ELSE Tabulate(Len(prices) - 1, LAMBDA i : Rat(prices[i + 1] - prices[i], prices[i]))

(* row k of returns[:n_windows * window].values.reshape(n_windows, window) *)
window_row(returns, window, k) ==
    Tabulate(window, LAMBDA i : returns[(k - 1) * window + i])

(* np.std(w) squared: the mean of the squared deviations from np.mean(w) *)
variance(w) ==
    LET mean_w == RDiv(RSumSeq(w), <<Len(w), 1>>)
        sq     == Tabulate(Len(w), LAMBDA i : RMul(RSub(w[i], mean_w), RSub(w[i], mean_w)))
    IN  RDiv(RSumSeq(sq), <<Len(w), 1>>)

(* rs_values is not empty: some row of the scale has S > 0 *)
has_rs_values(returns, window) ==
    \E k \in 1..(Len(returns) \div window) :
        Positive(variance(window_row(returns, window, k)))

(* the list `scales` after the loop over the windows *)
scales_of(returns) ==
    SelectSeq(Windows, LAMBDA window : Len(returns) >= window /\ has_rs_values(returns, window))

(* at least one scale is enough for the regression *)
hurst_value_one_scale(prices) ==
    LET returns == pct_change_returns(prices)
    IN  IF Len(returns) < MaxWindow THEN [hurst |-> Some(Half), scales |-> <<>>]
        ELSE LET scales == scales_of(returns)
             IN  IF Len(scales) >= 1 THEN [hurst |-> None, scales |-> scales]
                 ELSE [hurst |-> Some(Half), scales |-> scales]

(* the function without its early `return 0.5` for a short series *)
hurst_value_no_length_guard(prices) ==
    LET returns == pct_change_returns(prices)
        scales  == scales_of(returns)
    IN  IF Len(scales) >= 2 THEN [hurst |-> None, scales |-> scales]
        ELSE [hurst |-> Some(Half), scales |-> scales]

(* the returned float: 0.5 on the default paths; the slope of the
   regression of log(R/S) on log(scale) is not evaluated and is represented
   by the scales it is computed over *)
hurst_value(prices) ==
    LET returns == pct_change_returns(prices)
    IN  IF Len(returns) < MaxWindow THEN [hurst |-> Some(Half), scales |-> <<>>]
        ELSE LET scales == scales_of(returns)
             IN  IF Len(scales) >= 2 THEN [hurst |-> None, scales |-> scales]
                 ELSE [hurst |-> Some(Half), scales |-> scales]

calculate_hurst_exponent(prices) ==
    /\ ret' = Ok("_calculate_hurst_exponent", prices, hurst_value(prices))
    /\ UNCHANGED <<chain_vars, analysis_vars>>

(* SpecHurst: the exponent as a function of the price series.  A series has
   at most MaxPrices bars at the prices 1 and 2; it starts at 1 and changes
   price at no more than MaxToggles bars. *)
price_series(len, toggles) ==
    Tabulate(len, LAMBDA i :
        IF Cardinality({ j \in toggles : j <= i }) % 2 = 0 THEN 1 ELSE 2)

(* the subsets of S with at most k elements *)
RECURSIVE SubsetsUpTo(_, _)
SubsetsUpTo(S, k) ==
    IF k = 0 THEN { {} }
    ELSE LET T == SubsetsUpTo(S, k - 1)
         IN  T \cup { J \cup {x} : J \in T, x \in S }

ToggleSets(len) == SubsetsUpTo(2..len, MaxToggles)

PriceSeries(max_len) ==
    UNION { { price_series(len, J) : J \in ToggleSets(len) } : len \in 0..max_len }

HurstExponent ==
    /\ Fresh
    /\ \E prices \in PriceSeries(MaxPrices) : calculate_hurst_exponent(prices)

NextHurst == HurstExponent

SpecHurst == Init /\ [][NextHurst]_vars

----------------------------------------------------------------------------
(* CryptoMarkovChain._analyze_state_for_trading.  state.split('_') is the
   sequence of the bucket codes of the label, code c at position k standing
   for the part made of the k-th letter of "TVROMAS" and the digit c; the
   text of base_reasoning is kept as the list of the remarks appended *)

(* the part used when the label has no part at this position: 'M1', 'A1',
   'S1' *)
part(parts, k) == IF Len(parts) >= k THEN parts[k] ELSE 1

Remark(r, signal, note) == [signal |-> signal, reasoning |-> Append(r.reasoning, note)]

signal_by_trend(trend_part) ==
    IF trend_part = 2 THEN [signal |-> "BUY", reasoning |-> <<"trend up">>]
    ELSE IF trend_part = 0 THEN [signal |-> "SELL", reasoning |-> <<"trend down">>]
    ELSE [signal |-> "NEUTRAL", reasoning |-> <<"trend sideways">>]

adjust_by_rsi(r, rsi_part) ==
    IF rsi_part = 0
    THEN IF r.signal = "SELL" THEN Remark(r, "BUY", "RSI oversold (reversal)")
         ELSE IF r.signal = "NEUTRAL" THEN Remark(r, "BUY", "RSI oversold")
         ELSE r
    ELSE IF rsi_part = 2
    THEN IF r.signal = "BUY" THEN Remark(r, "SELL", "RSI overbought (reversal)")
         ELSE IF r.signal = "NEUTRAL" THEN Remark(r, "SELL", "RSI overbought")
         ELSE r
    ELSE r

adjust_by_volume(r, volume_part) ==
    IF volume_part = 2 THEN Remark(r, r.signal, "high volume (confirmation)")
    ELSE IF volume_part = 0 THEN Remark(r, r.signal, "low volume (weak confirmation)")
    ELSE r

adjust_by_volatility(r, volatility_part) ==
    IF volatility_part = 2 THEN Remark(r, r.signal, "high volatility (careful)")
    ELSE IF volatility_part = 0 THEN Remark(r, r.signal, "low volatility (stable)")
    ELSE r

adjust_by_macd(r, macd_part) ==
    IF macd_part = 2
    THEN IF r.signal = "BUY" THEN Remark(r, "BUY", "MACD bullish (confirmation)")
         ELSE IF r.signal = "SELL" THEN Remark(r, "NEUTRAL", "MACD bullish (contradiction)")
         ELSE r
    ELSE IF macd_part = 0
    THEN IF r.signal = "SELL" THEN Remark(r, "SELL", "MACD bearish (confirmation)")
         ELSE IF r.signal = "BUY" THEN Remark(r, "NEUTRAL", "MACD bearish (contradiction)")
         ELSE r
    ELSE r

adjust_by_adx(r, adx_part) ==
    IF adx_part = 2 THEN Remark(r, r.signal, "strong trend (reliable signal)")
    ELSE IF adx_part = 0 THEN Remark(r, "NEUTRAL", "weak trend (unreliable signal)")
    ELSE r

adjust_by_stoch(r, stoch_part) ==
    IF stoch_part = 0
    THEN IF r.signal = "SELL" THEN Remark(r, "BUY", "Stochastic oversold (reversal)")
         ELSE IF r.signal = "NEUTRAL" THEN Remark(r, "BUY", "Stochastic oversold")
         ELSE r
    ELSE IF stoch_part = 2
    THEN IF r.signal = "BUY" THEN Remark(r, "SELL", "Stochastic overbought (reversal)")
         ELSE IF r.signal = "NEUTRAL" THEN Remark(r, "SELL", "Stochastic overbought")
         ELSE r
    ELSE r

Indicator(cond) == IF cond THEN 1 ELSE 0

(* the six factors counted into confidence_factors; total_factors is 6 *)
confidence_factors(parts) ==
    Indicator(part(parts, 1) \in {0, 2}) + Indicator(part(parts, 3) \in {0, 2})
        + Indicator(part(parts, 5) \in {0, 2}) + Indicator(part(parts, 6) = 2)
        + Indicator(part(parts, 7) \in {0, 2}) + Indicator(part(parts, 4) = 2)

(* combined_confidence = (probability + factor_ratio) / 2 against 0.7 and 0.5 *)
confidence_of(parts, probability) ==
    LET factor_ratio == Rat(confidence_factors(parts), 6)
        combined_confidence == RDiv(RAdd(probability, factor_ratio), <<2, 1>>)
    IN  IF RLess(Rat(7, 10), combined_confidence) THEN "HIGH"
        ELSE IF RLess(Rat(5, 10), combined_confidence) THEN "MEDIUM"
        ELSE "LOW"

trading_analysis(parts, probability) ==
    IF Len(parts) < 4
    THEN [signal |-> "NEUTRAL", confidence |-> "LOW", reasoning |-> <<"unknown state">>]
    ELSE LET by_trend      == signal_by_trend(part(parts, 1))
             by_rsi        == adjust_by_rsi(by_trend, part(parts, 3))
             by_volume     == adjust_by_volume(by_rsi, part(parts, 4))
             by_volatility == adjust_by_volatility(by_volume, part(parts, 2))
             by_macd       == adjust_by_macd(by_volatility, part(parts, 5))
             by_adx        == adjust_by_adx(by_macd, part(parts, 6))
             by_stoch      == adjust_by_stoch(by_adx, part(parts, 7))
         IN  [signal |-> by_stoch.signal,
              confidence |-> confidence_of(parts, probability),
              reasoning |-> by_stoch.reasoning]

analyze_state_for_trading(state, probability) ==
    /\ ret' = Ok("_analyze_state_for_trading", <<state, probability>>,
                 trading_analysis(state, probability))
    /\ UNCHANGED <<chain_vars, analysis_vars>>

(* SpecTrading: the analysis as a function of the label and of the
   probability.  The label is any label of seven parts, or a truncated one
   of three to six parts; the probability is 0, 1/2 or 1, values for which
   the float comparisons with 0.7 and 0.5 are those of the exact numbers. *)
TradingStates == UNION { SeqsOfLen({0, 1, 2}, n) : n \in 3..7 }

Probabilities == { Zero, Half, One }

AnalyzeStateForTrading ==
    /\ Fresh
    /\ \E state \in TradingStates, probability \in Probabilities :
          analyze_state_for_trading(state, probability)

NextTrading == AnalyzeStateForTrading

SpecTrading == Init /\ [][NextTrading]_vars

----------------------------------------------------------------------------
(* Properties *)

IsBuild == ret.op = "build_transition_matrix"

IsDefine == ret.op = "define_states"

IsForecast == ret.op = "predict_next_states" /\ ret.status = "ok"

(* state s has an observed outgoing transition: it occurs in the state
   sequence before the last position *)
HasOutgoing(s) == \E i \in 1..(Len(states) - 1) : states[i].value = s

IsZeroRow(row) == \A b \in 1..Len(row) : row[b] = Zero

(* C1: after build_transition_matrix every entry of the matrix is
   non-negative, the row of a state with an observed outgoing transition
   sums to 1, and the row of a state without one is all zero. *)
C1_RowStochastic ==
    IsBuild =>
        \A a \in 1..Len(state_names) :
            LET row == transition_matrix.val[a]
            IN  /\ \A b \in 1..Len(row) : row[b][1] >= 0 /\ row[b][2] > 0
                /\ HasOutgoing(state_names[a]) => RSumSeq(row) = One
                /\ ~HasOutgoing(state_names[a]) => IsZeroRow(row)

(* a built matrix with an all-zero row next to a row that splits its mass *)
C1_Witness ==
    /\ IsBuild
    /\ \E a \in 1..Len(state_names) : IsZeroRow(transition_matrix.val[a])
    /\ \E a \in 1..Len(state_names) :
          \E b \in 1..Len(state_names) :
              /\ Zero # transition_matrix.val[a][b]
              /\ One # transition_matrix.val[a][b]

(* time step i of the frame has an undefined value in one of the seven
   dimensions the label is built from *)
MissingFeature(data, i) ==
    \/ IsRNaN(price_change(data)[i])
    \/ IsNaN(data[i].Volatility)
    \/ IsNaN(data[i].RSI)
    \/ IsNaN(data[i].Volume_Norm)
    \/ IsNaN(data[i].MACD) \/ IsNaN(data[i].MACD_Signal)
    \/ IsNaN(data[i].ADX)
    \/ IsNaN(data[i].Stoch_K)

(* C2: define_states produces no State for a time step whose feature
   vector has an undefined value in any of the seven dimensions: the step
   is absent from the state sequence. *)
C2_MissingStepSkipped ==
    IsDefine =>
        \A i \in 1..Len(ret.arg) :
            MissingFeature(ret.arg, i) => ~\E k \in 1..Len(states) : states[k].key = i

Sum(v) == RSumSeq(v)

(* C3 as stated: the full probability vector recorded at every step of a
   forecast sums to 1. *)
C3_SumsToOne_Original ==
    IsForecast => \A k \in 1..Len(ret.value) : Sum(ret.value[k].all_probabilities) = One

(* the mass that the distribution v holds on states whose row is all zero *)
MassOnZeroRows(v, M) ==
    RSumSeq(Tabulate(Len(v), LAMBDA i : IF IsZeroRow(M[i]) THEN v[i] ELSE Zero))

StartVector == OneHot(Len(state_names), index(state_names, ret.arg[1]))

(* C3 amended: every entry of a recorded vector is non-negative, and the
   vector of step k sums to the sum of the previous distribution (the
   one-hot start vector for k = 1) minus the mass that distribution held on
   states with an all-zero row; so the sum is 1 at every step when the
   matrix has no all-zero row, and never exceeds 1. *)
C3_MassConservation ==
    IsForecast =>
        \A k \in 1..Len(ret.value) :
            LET cur  == ret.value[k].all_probabilities
                prev == IF k = 1 THEN StartVector ELSE ret.value[k - 1].all_probabilities
            IN  /\ \A j \in 1..Len(cur) : cur[j][1] >= 0
                /\ Sum(cur) = RSub(Sum(prev), MassOnZeroRows(prev, transition_matrix.val))
                /\ (\A a \in 1..Len(transition_matrix.val) :
                        ~IsZeroRow(transition_matrix.val[a])) => Sum(cur) = One
                /\ ~RLess(One, Sum(cur))

(* a forecast of several steps over a matrix without zero row whose last
   distribution is spread over more than one state *)
C3_Witness ==
    /\ IsForecast
    /\ Len(ret.value) >= 2
    /\ \A a \in 1..Len(transition_matrix.val) : ~IsZeroRow(transition_matrix.val[a])
    /\ \E j \in 1..Len(state_names) :
          LET p == ret.value[Len(ret.value)].all_probabilities[j]
          IN  RLess(Zero, p) /\ RLess(p, One)

IsHitting == ret.op = "calculate_hitting_times"

(* the target list names only states of the alphabet 0..n-1 *)
TargetsInAlphabet == \A k \in 1..Len(ret.arg) : ret.arg[k] \in 0..(Dim - 1)

(* C4: for every state t of a non-empty target set the returned vector has
   value 0 at t, on the direct path and on the fallback path. *)
C4_TargetsAtZero ==
    (IsHitting /\ ret.status = "ok" /\ Len(ret.arg) >= 1 /\ TargetsInAlphabet) =>
        \A k \in 1..Len(ret.arg) : ret.value.hitting_times[ret.arg[k] + 1] = Zero

(* the chain A -> B (1.0), B -> B (1.0) *)
AbsorbingChain == <<<<Zero, One>>, <<Zero, One>>>>

ClassSets(classes) == { Range(classes[k]) : k \in 1..Len(classes) }

IsClasses == ret.op = "find_communication_classes" /\ ret.status = "ok"

(* C5: communication classes are maximal sets of mutually reachable
   states; for the chain A -> B (1.0), B -> B (1.0) the result is the two
   classes {A} and {B}. *)
C5_AbsorbingChainClasses ==
    (IsClasses /\ transition_matrix.val = AbsorbingChain) =>
        ClassSets(ret.value) = { {0}, {1} }

(* C6: the classes returned by find_communication_classes are pairwise
   disjoint, list no state twice, and their union is the set of all state
   indices 0..n-1. *)
C6_Partition ==
    IsClasses =>
        /\ UNION ClassSets(ret.value) = 0..(Dim - 1)
        /\ \A k \in 1..Len(ret.value) : Cardinality(Range(ret.value[k])) = Len(ret.value[k])
        /\ \A k, l \in 1..Len(ret.value) :
              k # l => Range(ret.value[k]) \cap Range(ret.value[l]) = {}

(* a matrix split into several classes, one of them with several states *)
C6_Witness ==
    /\ IsClasses
    /\ Len(ret.value) >= 2
    /\ \E k \in 1..Len(ret.value) : Len(ret.value[k]) >= 2

UsesStationary ==
    /\ ret.op \in {"calculate_expected_return_times", "generate_trading_insights",
                   "analyze_market_phases"}
    /\ ret.status = "ok"

(* C7: the cached stationary distribution is invalidated whenever the
   chain's matrix changes: an operation that reads it never works on a
   vector computed from an earlier matrix. *)
C7_NoStaleStationary ==
    UsesStationary => ret.value.eig_of = transition_matrix.val

(* C8: no analyzer mutates the chain: predict_next_states,
   analyze_stationarity, find_absorption_states, find_communication_classes
   and calculate_hitting_times (direct and fallback path) leave
   transition_matrix, states and state_names unchanged. *)
C8_AnalyzersReadOnly ==
    [][ret'.op \in {"predict_next_states", "analyze_stationarity",
                    "find_absorption_states", "find_communication_classes",
                    "calculate_hitting_times"}
         => chain_vars' = chain_vars]_vars

(* hitting times were computed by the fallback for a real target *)
C8_Witness ==
    /\ IsHitting
    /\ ret.status = "ok"
    /\ ret.value.path = "fallback"
    /\ Len(ret.arg) >= 1
    /\ TargetsInAlphabet

(* C9: predict_next_states raises, returns no forecast and leaves the
   chain unchanged when no matrix has been built and when the starting
   state is not in the alphabet; the error for an unknown state carries
   that state. *)
C9_PredictErrors ==
    [][ret'.op = "predict_next_states" =>
          /\ chain_vars' = chain_vars
          /\ transition_matrix.none =>
                ret'.status = "error" /\ ret'.value = <<>>
          /\ (~transition_matrix.none /\ ret'.arg[1] \notin Range(state_names)) =>
                /\ ret'.status = "error"
                /\ ret'.value = <<>>
                /\ ret'.error.subject = ret'.arg[1]]_vars

(* an unknown starting state was rejected although a matrix is built *)
C9_Witness ==
    /\ ret.op = "predict_next_states"
    /\ ret.status = "error"
    /\ ~transition_matrix.none
    /\ state_names # <<>>
    /\ ret.error.subject = UnknownLabel

(* C10: calculate_hitting_times raises an error, instead of returning a
   vector, when a target is not a state of the alphabet: an index outside
   0..n-1, negative ones included. *)
C10_UnknownTargetRaises ==
    (IsHitting /\ ~transition_matrix.none /\ ~TargetsInAlphabet) => ret.status = "error"

HasZeroRow ==
    /\ ~transition_matrix.none
    /\ \E a \in 1..Len(transition_matrix.val) : IsZeroRow(transition_matrix.val[a])

IsDownstream ==
    \/ ret.op = "predict_next_states" /\ ret.arg[1] \in Range(state_names)
    \/ ret.op = "find_communication_classes"
    \/ ret.op = "find_absorption_states"
    \/ IsHitting /\ TargetsInAlphabet

IsZeroColumn(P, b) == \A a \in 1..Len(P) : P[a][b] = Zero

(* C11: on a matrix that contains an all-zero row, predict_next_states from
   a state of the alphabet, find_communication_classes,
   find_absorption_states and calculate_hitting_times on targets of the
   alphabet all return a result and raise nothing; a forecast has the
   requested number of records, and a state whose row and column are both
   all zero is a class by itself. *)
C11_ZeroRowHandled ==
    (HasZeroRow /\ IsDownstream) =>
        /\ ret.status = "ok"
        /\ ret.op = "predict_next_states" => Len(ret.value) = ret.arg[2]
        /\ IsHitting => Len(ret.value.hitting_times) = Dim
        /\ ret.op = "find_communication_classes" =>
              \A a \in 1..Dim :
                  (IsZeroRow(transition_matrix.val[a]) /\ IsZeroColumn(transition_matrix.val, a))
                      => <<a - 1>> \in Range(ret.value)

(* hitting times towards a target on a matrix with an all-zero row whose
   linear system is singular *)
C11_Witness ==
    /\ HasZeroRow
    /\ IsHitting
    /\ TargetsInAlphabet
    /\ Len(ret.arg) >= 1
    /\ ret.status = "ok"
    /\ ret.value.path = "fallback"

IsAbsorption == ret.op = "find_absorption_states" /\ ret.status = "ok"

(* C12: find_absorption_states returns, in ascending order and without
   repetition, exactly the indices i with P[i][i] = 1; a state whose row is
   all zero is never in the result; for the chain A -> B (1.0),
   B -> B (1.0) the result is [B]. *)
C12_AbsorptionStates ==
    IsAbsorption =>
        /\ Ascending(ret.value)
        /\ Range(ret.value) = { i \in 0..(Dim - 1) : transition_matrix.val[i + 1][i + 1] = One }
        /\ \A i \in 0..(Dim - 1) :
              IsZeroRow(transition_matrix.val[i + 1]) => i \notin Range(ret.value)
        /\ transition_matrix.val = AbsorbingChain => ret.value = <<1>>
        /\ absorption_states = Some(ret.value)

(* a matrix with an absorbing state, a state that stays with probability
   one half, and no other state *)
C12_Witness ==
    /\ IsAbsorption
    /\ ret.value # <<>>
    /\ \E i \in 1..Dim :
          /\ Positive(transition_matrix.val[i][i])
          /\ transition_matrix.val[i][i] # One

(* C13: when the linear system is singular and calculate_hitting_times
   falls back to the iterative approximation, the returned result is
   marked as approximate, so that a caller can tell it from the result of
   the direct solve. *)
C13_FallbackMarked ==
    (IsHitting /\ ret.status = "ok" /\ ret.value.path = "fallback") =>
        marked_approximate(ret.value.path)

(* C14: define_states and build_transition_matrix are deterministic: the
   state of every time step, the order of state_names and the matrix that
   define_states(d) followed by build_transition_matrix(d) leave in the
   chain are functions of d alone, whatever was done with the chain before
   and in whatever order the set of labels is listed. *)
C14_Deterministic ==
    [][LET d      == ret'.arg
           labels == define_states_result(d).states
       IN  /\ ret'.op = "define_states" =>
                 /\ states' = labels
                 /\ \A order \in Enumerations(Range(Values(labels))) :
                        state_names' = names_from(order)
           /\ (ret'.op = "build_transition_matrix" /\ ret.op = "define_states" /\ ret.arg = d) =>
                 /\ states' = labels
                 /\ \A order \in Enumerations(Range(Values(labels))) :
                        /\ state_names' = names_from(order)
                        /\ transition_matrix' = Some(matrix_of(labels, names_from(order)))]_vars

(* a chain trained on a frame with several labels after it had been
   trained on other data: the cached stationary vector stems from another
   matrix *)
C14_Witness ==
    /\ IsBuild
    /\ states = define_states_result(ret.arg).states
    /\ Len(state_names) >= 2
    /\ ~stationary_distribution.none
    /\ stationary_distribution.val.eig_of # transition_matrix.val

IsStationarity == ret.op = "analyze_stationarity" /\ ret.status = "ok"

RowStochastic(P) ==
    \A i \in 1..Len(P) :
        /\ \A j \in 1..Len(P) : P[i][j][1] >= 0
        /\ RSumSeq(P[i]) = One

(* the states reachable from the set S along entries P[i][j] > 0 *)
RECURSIVE Reachable(_, _)
Reachable(P, S) ==
    LET T == S \cup { j \in 1..Len(P) : \E i \in S : Positive(P[i][j]) }
    IN  IF T = S THEN S ELSE Reachable(P, T)

Irreducible(P) == \A i \in 1..Len(P) : Reachable(P, {i}) = 1..Len(P)

(* the chain A -> A 0.9, A -> B 0.1, B -> A 0.4, B -> B 0.6 *)
TwoStateChain == <<<<Rat(9, 10), Rat(1, 10)>>, <<Rat(4, 10), Rat(6, 10)>>>>

(* C15: for an irreducible row-stochastic matrix the vector that
   analyze_stationarity returns and caches has one entry per state, no
   negative entry, sum 1, and is a fixed point, pi P = pi; for the chain
   A -> A 0.9, A -> B 0.1, B -> A 0.4, B -> B 0.6 it is [0.8, 0.2]. *)
C15_StationaryFixedPoint ==
    (IsStationarity /\ RowStochastic(transition_matrix.val) /\ Irreducible(transition_matrix.val)) =>
        /\ ~ret.value.vector.none
        /\ LET pi == ret.value.vector.val
               P  == transition_matrix.val
           IN  /\ Len(pi) = Len(P)
               /\ \A i \in 1..Len(pi) : pi[i][1] >= 0 /\ pi[i][2] > 0
               /\ RSumSeq(pi) = One
               /\ VecMat(pi, P) = pi
               /\ P = TwoStateChain => pi = <<Rat(8, 10), Rat(2, 10)>>
        /\ stationary_distribution = Some(ret.value)

(* the stationary vector of an irreducible chain that is not uniform *)
C15_Witness ==
    /\ IsStationarity
    /\ RowStochastic(transition_matrix.val)
    /\ Irreducible(transition_matrix.val)
    /\ ~ret.value.vector.none
    /\ \E i, j \in 1..Dim : ret.value.vector.val[i] # ret.value.vector.val[j]

IsHurst == ret.op = "_calculate_hurst_exponent"

(* the window sizes that are usable for the series: the series of returns
   is at least that long and one of its windows of that size has a positive
   standard deviation *)
UsableWindows(prices) ==
    LET returns == pct_change_returns(prices)
    IN  { k \in 1..Len(Windows) :
            /\ Len(returns) >= Windows[k]
            /\ has_rs_values(returns, Windows[k]) }

(* C16: _calculate_hurst_exponent returns 0.5 and raises nothing whenever
   fewer than two of the window sizes 2, 4, 8, 16, 32 are usable for the
   series. *)
C16_HurstDefault ==
    (IsHurst /\ Cardinality(UsableWindows(ret.arg)) < 2) =>
        /\ ret.status = "ok"
        /\ ret.value.hurst = Some(Half)

(* a series of at least 32 returns with exactly one usable window size *)
C16_Witness ==
    /\ IsHurst
    /\ Len(ret.arg) > MaxWindow
    /\ Cardinality(UsableWindows(ret.arg)) = 1
    /\ ret.value.hurst = Some(Half)

(* the number of positions i before the last with s[i] = a and s[i+1] = b,
   and the number of positions before the last with s[i] = a *)
PairCount(s, a, b) == Cardinality({ i \in 1..(Len(s) - 1) : s[i] = a /\ s[i + 1] = b })

FromCount(s, a) == Cardinality({ i \in 1..(Len(s) - 1) : s[i] = a })

Alternating(s) ==
    /\ Len(s) = 6
    /\ s[1] # s[2]
    /\ \A i \in 1..4 : s[i + 2] = s[i]

(* C17: with s the chronological state sequence of the chain,
   build_transition_matrix sets P[a][b] to the number of positions i with
   s[i] = a and s[i+1] = b divided by the number of positions i before the
   last with s[i] = a, for every pair of states a, b for which that number
   is positive; the sequence X, Y, X, Y, X, Y gives P[X][Y] = 1,
   P[Y][X] = 1 and 0 elsewhere. *)
C17_CountingFormula ==
    IsBuild =>
        LET s == Values(states)
            P == transition_matrix.val
        IN  /\ Len(P) = Len(state_names)
            /\ \A a, b \in 1..Len(state_names) :
                  /\ Len(P[a]) = Len(state_names)
                  /\ FromCount(s, state_names[a]) > 0 =>
                        P[a][b] = Rat(PairCount(s, state_names[a], state_names[b]),
                                      FromCount(s, state_names[a]))
            /\ Alternating(s) =>
                  LET X == index(state_names, s[1])
                      Y == index(state_names, s[2])
                  IN  /\ Len(state_names) = 2
                      /\ P[X] = [b \in 1..2 |-> IF b = Y THEN One ELSE Zero]
                      /\ P[Y] = [b \in 1..2 |-> IF b = X THEN One ELSE Zero]

(* the matrix built from a sequence X, Y, X, Y, X, Y *)
C17_Witness ==
    /\ IsBuild
    /\ Alternating(Values(states))

(* the probability of moving from state i to state j in k steps, by
   conditioning on the first step *)
RECURSIVE StepProb(_, _, _, _)
StepProb(P, i, j, k) ==
    IF k = 1 THEN P[i][j]
    ELSE RSumSeq(Tabulate(Len(P), LAMBDA m :
            IF P[i][m] = Zero THEN Zero ELSE RMul(P[i][m], StepProb(P, m, j, k - 1))))

(* C18: predict_next_states(start, N) returns N records with step 1..N in
   order; the distribution of record k is the one-hot vector of the start
   state multiplied k times from the right by the matrix, i.e. the k-step
   transition probabilities out of the start state; the reported probability is the largest entry
   of that distribution and the reported state is a state holding it; the
   chain A -> A 0.9, A -> B 0.1, B -> A 0.4, B -> B 0.6 from A gives
   [0.9, 0.1], [0.85, 0.15], [0.825, 0.175]. *)
C18_ForecastRecords ==
    IsForecast =>
        LET P     == transition_matrix.val
            start == index(state_names, ret.arg[1])
        IN  /\ Len(ret.value) = ret.arg[2]
            /\ \A k \in 1..Len(ret.value) :
                  LET rec == ret.value[k]
                  IN  /\ rec.step = k
                      /\ Len(rec.all_probabilities) = Len(P)
                      /\ \A j \in 1..Len(P) :
                            rec.all_probabilities[j] = StepProb(P, start, j, k)
                      /\ \A j \in 1..Len(P) : ~RLess(rec.probability, rec.all_probabilities[j])
                      /\ \E j \in 1..Len(P) :
                            /\ rec.all_probabilities[j] = rec.probability
                            /\ rec.state = state_names[j]
            /\ (P = TwoStateChain /\ start = 1 /\ ret.arg[2] = 3) =>
                  /\ ret.value[1].all_probabilities = <<Rat(9, 10), Rat(1, 10)>>
                  /\ ret.value[2].all_probabilities = <<Rat(85, 100), Rat(15, 100)>>
                  /\ ret.value[3].all_probabilities = <<Rat(825, 1000), Rat(175, 1000)>>

(* the three-step forecast from A on the chain of the example *)
C18_Witness ==
    /\ IsForecast
    /\ transition_matrix.val = TwoStateChain
    /\ ret.arg = <<Alphabet(2)[1], 3>>
    /\ ret.value[3].state = Alphabet(2)[1]

(* the undirected support graph: an edge {u, v} whenever P[u][v] > 0 or
   P[v][u] > 0 (states numbered from 0) *)
Edge(P, u, v) == P[u + 1][v + 1][1] > 0 \/ P[v + 1][u + 1][1] > 0

(* the states joined to a state of S by a path of the support graph *)
RECURSIVE Component(_, _)
Component(P, S) ==
    LET T == S \cup { v \in 0..(Len(P) - 1) : \E u \in S : Edge(P, u, v) }
    IN  IF T = S THEN S ELSE Component(P, T)

SameClass(classes, i, j) ==
    \E k \in 1..Len(classes) : i \in Range(classes[k]) /\ j \in Range(classes[k])

(* C19: find_communication_classes puts two states i and j in the same
   class if and only if a path joins them in the undirected graph that has
   an edge {u, v} whenever P[u][v] > 0 or P[v][u] > 0. *)
C19_WeakConnectivity ==
    IsClasses =>
        /\ \A i, j \in 0..(Dim - 1) :
              SameClass(ret.value, i, j) <=> j \in Component(transition_matrix.val, {i})
        /\ communication_classes = Some(ret.value)

(* a class holding two states that no edge joins directly *)
C19_Witness ==
    /\ IsClasses
    /\ \E i, j \in 0..(Dim - 1) :
          /\ i # j
          /\ SameClass(ret.value, i, j)
          /\ ~Edge(transition_matrix.val, i, j)

(* state i (numbered from 0) is listed in the target list *)
IsTarget(i) == \E k \in 1..Len(ret.arg) : ret.arg[k] = i

(* C20: when np.linalg.solve succeeds for targets of the alphabet, the
   returned vector h has h(t) = 0 for every target t and
   h(i) = 1 + sum over j of P[i][j] * h(j) for every other state i; for
   the chain A -> B (1.0), B -> B (1.0) with target {B} it is [1, 0]. *)
C20_HittingRecurrence ==
    (IsHitting /\ ret.status = "ok" /\ TargetsInAlphabet /\ ret.value.path = "solve") =>
        LET P == transition_matrix.val
            h == ret.value.hitting_times
        IN  /\ \A i \in 1..Len(P) :
                  IF IsTarget(i - 1) THEN h[i] = Zero
                  ELSE h[i] = RAdd(One, RSumSeq(Tabulate(Len(P), LAMBDA j : RMul(P[i][j], h[j]))))
            /\ (P = AbsorbingChain /\ ret.arg = <<1>>) => (h[1] = One /\ h[2] = Zero)

(* a direct solve towards a target from which some state is more than one
   step away in expectation *)
C20_Witness ==
    /\ IsHitting
    /\ ret.status = "ok"
    /\ TargetsInAlphabet
    /\ Len(ret.arg) >= 1
    /\ ret.value.path = "solve"
    /\ \E i \in 1..Dim : RLess(One, ret.value.hitting_times[i])

(* on a matrix of zero and unit rows: the number of states on the path that
   starts at state i (numbered from 1) and ends at the first state that is
   listed as a target or has an all-zero row; 0 when the path runs into a
   cycle and never ends *)
RECURSIVE PathLength(_, _, _, _)
PathLength(P, target_states, i, fuel) ==
    IF (\E k \in 1..Len(target_states) : target_states[k] = i - 1) \/ IsZeroRow(P[i])
    THEN 1
    ELSE IF fuel = 0 THEN 0
    ELSE LET next == CHOOSE j \in 1..Len(P) : P[i][j] = One
             rest == PathLength(P, target_states, next, fuel - 1)
         IN  IF rest = 0 THEN 0 ELSE 1 + rest

IsFallback == IsHitting /\ ret.status = "ok" /\ ret.value.path = "fallback"

(* C21: when the linear system is singular calculate_hitting_times raises
   nothing and returns a vector with one entry per state, the iterate that
   the relaxation h(i) = 1 + sum over j of P[i][j] * h(j) started from the
   zero vector has reached after at most 1000 passes: no entry exceeds
   1000, the vector differs from its own relaxation only if all 1000 passes
   were made, and on a matrix of zero and unit rows the entry of state i is
   the length of the path from i to the first target or dead end, 1000 when
   the path never ends. *)
C21_FallbackTerminates ==
    IsFallback =>
        LET P == transition_matrix.val
            h == ret.value.hitting_times
        IN  /\ Len(h) = Dim
            /\ \A i \in 1..Dim : ~RLess(h[i], Zero) /\ ~RLess(<<MaxIter, 1>>, h[i])
            /\ ~allclose(h, relax(P, ret.arg, h)) => \E i \in 1..Dim : h[i] = <<MaxIter, 1>>
            /\ IsZeroOne(P) =>
                  \A i \in 1..Dim :
                      LET len == PathLength(P, ret.arg, i, Dim)
                      IN  h[i] = IF len = 0 THEN <<MaxIter, 1>> ELSE <<len, 1>>

(* a fallback towards a target in which one state steps to the target and
   another state never reaches it *)
C21_Witness ==
    /\ IsFallback
    /\ Len(ret.arg) >= 1
    /\ TargetsInAlphabet
    /\ \E i \in 1..Dim : ret.value.hitting_times[i] = <<2, 1>>
    /\ \E i \in 1..Dim : ret.value.hitting_times[i] = <<MaxIter, 1>>

(* C22: through every sequence of define_states and build_transition_matrix
   calls a matrix that is set has as many rows as state_names has entries
   and is indexed by state_names: a define_states call made while a matrix
   is set leaves state_names as the alphabet that matrix was built with. *)
C22_MatrixMatchesNames ==
    [][~transition_matrix'.none =>
          /\ Len(transition_matrix'.val) = Len(state_names')
          /\ (ret'.op = "define_states" /\ ~transition_matrix.none) =>
                state_names' = state_names]_vars

(* the matrix counted from the states of the frame alone *)
MatrixOfFrame(data) ==
    matrix_of(define_states_result(data).states, define_states_result(data).state_names)

(* C23: build_transition_matrix(data) returns and stores the matrix of the
   transitions of data, also when the chain holds the states of an earlier
   define_states call on other data. *)
C23_BuildUsesGivenData ==
    IsBuild =>
        /\ ret.value = MatrixOfFrame(ret.arg)
        /\ transition_matrix = Some(ret.value)

(* the indices (from 1) of the all-zero rows of the matrix *)
ZeroRows(P) == { a \in 1..Len(P) : IsZeroRow(P[a]) }

(* the last state of the sequence s occurs nowhere earlier in s *)
LastIsNew(s) == \A i \in 1..(Len(s) - 1) : s[i] # s[Len(s)]

(* C24: the matrix built from a non-empty state sequence has at most one
   all-zero row; it has one exactly when the last state of the sequence
   occurs nowhere earlier in the sequence, and the row is then the row of
   that state. *)
C24_AtMostOneZeroRow ==
    (IsBuild /\ states # <<>>) =>
        LET s == Values(states)
            Z == ZeroRows(transition_matrix.val)
        IN  /\ Cardinality(Z) <= 1
            /\ Z # {} <=> LastIsNew(s)
            /\ \A a \in Z : state_names[a] = s[Len(s)]

(* a matrix over three states or more, the last state of the sequence being
   new, and one state of the sequence occurring last at the position before
   the end *)
C24_Witness ==
    /\ IsBuild
    /\ Len(state_names) >= 3
    /\ ZeroRows(transition_matrix.val) # {}
    /\ LET s == Values(states)
       IN  \A i \in 1..(Len(s) - 2) : s[i] # s[Len(s) - 1]

(* position i of the sequence s and every later position hold the state x *)
HoldsFrom(s, i, x) == \A j \in i..Len(s) : s[j] = x

(* C25: on the matrix built from one state sequence find_absorption_states
   returns at most one state; a state it returns is the last state of the
   sequence, and that state holds every position of the sequence from its
   first occurrence to the end. *)
C25_AbsorptionIsFinal ==
    (IsAbsorption /\ states # <<>>) =>
        LET s == Values(states)
        IN  /\ Len(ret.value) <= 1
            /\ \A k \in 1..Len(ret.value) :
                  LET x == state_names[ret.value[k] + 1]
                  IN  /\ x = s[Len(s)]
                      /\ \A i \in 1..Len(s) : s[i] = x => HoldsFrom(s, i, x)

(* an absorbing state found in a matrix over several states *)
C25_Witness ==
    /\ IsAbsorption
    /\ ret.value # <<>>
    /\ Len(state_names) >= 2
    /\ states # <<>>

(* C26: on the matrix built from one non-empty state sequence
   find_communication_classes returns exactly one class, and that class
   lists every state index 0..n-1 once. *)
C26_SingleClass ==
    (IsClasses /\ states # <<>>) =>
        /\ Len(ret.value) = 1
        /\ Range(ret.value[1]) = 0..(Len(state_names) - 1)
        /\ Len(ret.value[1]) = Len(state_names)

(* the single class of a matrix over three states or more in which some
   state never follows the state of index 0 directly, nor precedes it *)
C26_Witness ==
    /\ IsClasses
    /\ states # <<>>
    /\ Len(state_names) >= 3
    /\ \E j \in 1..(Len(state_names) - 1) : ~Edge(transition_matrix.val, 0, j)

(* a label T?_V?_R?_O?_M?_A?_S? with every bucket in {0, 1, 2} *)
WellFormedLabel(x) == Len(x) = 7 /\ \A k \in 1..7 : x[k] \in {0, 1, 2}

StrictlyAscending(names) ==
    \A k \in 1..(Len(names) - 1) : LabelLess(names[k], names[k + 1])

(* C27: after define_states, and after the build_transition_matrix that
   follows it, state_names is strictly ascending in the order of the label
   strings, holds exactly the labels that occur in states, every label has
   its seven buckets in {0, 1, 2}, and every element of the state sequence
   is found at exactly one index of state_names. *)
C27_NamesSortedAndComplete ==
    (IsDefine \/ IsBuild) =>
        /\ StrictlyAscending(state_names)
        /\ Range(state_names) = Range(Values(states))
        /\ \A k \in 1..Len(state_names) : WellFormedLabel(state_names[k])
        /\ \A i \in 1..Len(states) :
              /\ index(state_names, states[i].value) \in 1..Len(state_names)
              /\ Cardinality({ k \in 1..Len(state_names) : state_names[k] = states[i].value }) = 1

(* three labels or more, a label recurring in the sequence, and the
   sequence meeting the labels in another order than the sorted one *)
C27_Witness ==
    /\ IsDefine
    /\ Len(state_names) >= 3
    /\ Len(states) > Len(state_names)
    /\ LabelLess(states[2].value, states[1].value)

(* v[k] is an entry of v that no entry exceeds *)
IsMaximum(v, k) == \A j \in 1..Len(v) : ~RLess(v[k], v[j])

(* C28: in every record of a forecast the reported probability is the
   largest entry of the distribution of that step, and the reported state
   is the first state of state_names whose entry is that large; when the
   row of the starting state is all zero, every record reports
   state_names[0] with probability 0 and an all-zero distribution. *)
C28_FirstMostLikely ==
    IsForecast =>
        LET P     == transition_matrix.val
            start == index(state_names, ret.arg[1])
        IN  /\ \A k \in 1..Len(ret.value) :
                  LET rec == ret.value[k]
                      cur == rec.all_probabilities
                      top == { j \in 1..Len(cur) : IsMaximum(cur, j) }
                  IN  /\ top # {}
                      /\ \A j \in top : rec.probability = cur[j]
                      /\ \E j \in top : rec.state = state_names[j] /\ \A l \in top : j <= l
            /\ IsZeroRow(P[start]) =>
                  \A k \in 1..Len(ret.value) :
                      /\ ret.value[k].state = state_names[1]
                      /\ ret.value[k].probability = Zero
                      /\ IsZeroRow(ret.value[k].all_probabilities)

(* a forecast of several steps from a state with an all-zero row that is
   not the first state of state_names *)
C28_Witness ==
    /\ IsForecast
    /\ Len(ret.value) >= 2
    /\ index(state_names, ret.arg[1]) > 1
    /\ IsZeroRow(transition_matrix.val[index(state_names, ret.arg[1])])

(* the function returned the slope of the regression, not the default *)
ReturnsSlope == IsHurst /\ ret.value.hurst.none

(* C29: _calculate_hurst_exponent returns exactly 0.5 for every series with
   fewer than 32 single-step returns, however many of the window sizes 2,
   4, 8, 16 are usable for it; it returns a regression slope only for a
   series with at least 32 returns. *)
C29_ShortSeriesDefault ==
    IsHurst =>
        /\ ret.status = "ok"
        /\ Len(pct_change_returns(ret.arg)) < MaxWindow =>
              ret.value.hurst = Some(Half)
        /\ ReturnsSlope => Len(pct_change_returns(ret.arg)) >= MaxWindow

(* a series of 31 returns for which the window sizes 2, 4, 8 and 16 are all
   usable *)
C29_Witness ==
    /\ IsHurst
    /\ Len(pct_change_returns(ret.arg)) = MaxWindow - 1
    /\ UsableWindows(ret.arg) = {1, 2, 3, 4}
    /\ ret.value.hurst = Some(Half)

IsTrading == ret.op = "_analyze_state_for_trading"

(* C30: for every state of seven parts whose ADX part is A0 and every
   probability, _analyze_state_for_trading returns the signal NEUTRAL,
   whatever the trend, RSI, MACD and stochastic parts are. *)
C30_WeakTrendNeutral ==
    (IsTrading /\ Len(ret.arg[1]) = 7 /\ ret.arg[1][6] = 0) =>
        ret.value.signal = "NEUTRAL"

====
